---- MODULE Spec2Model ----
(***************************************************************************)
(* ArchFlow backend (src/backend/main.py): the single-slot graph store     *)
(* (save_graph / load_graph / clear_graph over GRAPH_FILE) and the Mermaid *)
(* export transform (export_mermaid).                                      *)
(*                                                                         *)
(* Python values are tagged records (k = "str", "int", "float", "bool",    *)
(* "None", "dict", "list"); a Python str is a sequence of one-character    *)
(* strings; a float is held in tenths (PFloat(15) is 1.5).  The content of *)
(* GRAPH_FILE is a JSON document, tagged with j = "string", "number", ...  *)
(***************************************************************************)
EXTENDS Integers, Sequences, FiniteSets, TLC

VARIABLES file, last, lastChange, reqs, lastWriter

vars == <<file, last, lastChange, reqs, lastWriter>>

(* ---------------------------- bounds ---------------------------------- *)
MaxNodes == 2
MaxEdges == 1
MaxExportNodes == 2
MaxExportEdges == 1
MaxReqs == 3

(* ------------------------- Python values ------------------------------ *)
PStr(s) == [k |-> "str", v |-> s]
PInt(n) == [k |-> "int", v |-> n]
PFloat(t) == [k |-> "float", v |-> t]
PBool(b) == [k |-> "bool", v |-> b]
PNone == [k |-> "None"]
PDict(f) == [k |-> "dict", v |-> f]
PList(q) == [k |-> "list", v |-> q]

EmptyMap == [key \in {} |-> PNone]

Without(f, key) == [x \in (DOMAIN f) \ {key} |-> f[x]]

(* dict.get(key, default) on a Python dict                                 *)
DictGet(d, key, default) == IF key \in DOMAIN d.v THEN d.v[key] ELSE default

(* --------------------- json.dump / json.load -------------------------- *)
(* json.dump writes None as null, True/False as true/false, an int as an   *)
(* integer literal and a float as a literal with a fraction; json.load     *)
(* reads an integer literal as int and a literal with a fraction as float. *)
RECURSIVE JsonDump(_)
JsonDump(p) ==
  CASE p.k = "str"   -> [j |-> "string", v |-> p.v]
    [] p.k = "int"   -> [j |-> "number", frac |-> FALSE, v |-> p.v]
    [] p.k = "float" -> [j |-> "number", frac |-> TRUE, v |-> p.v]
    [] p.k = "bool"  -> [j |-> IF p.v THEN "true" ELSE "false"]
    [] p.k = "None"  -> [j |-> "null"]
    [] p.k = "dict"  -> [j |-> "object", v |-> [key \in DOMAIN p.v |-> JsonDump(p.v[key])]]
    [] p.k = "list"  -> [j |-> "array", v |-> [i \in DOMAIN p.v |-> JsonDump(p.v[i])]]

RECURSIVE JsonLoad(_)
JsonLoad(d) ==
  CASE d.j = "string" -> PStr(d.v)
    [] d.j = "number" -> IF d.frac THEN PFloat(d.v) ELSE PInt(d.v)
    [] d.j = "true"   -> PBool(TRUE)
    [] d.j = "false"  -> PBool(FALSE)
    [] d.j = "null"   -> PNone
    [] d.j = "object" -> PDict([key \in DOMAIN d.v |-> JsonLoad(d.v[key])])
    [] d.j = "array"  -> PList([i \in DOMAIN d.v |-> JsonLoad(d.v[i])])

(* ------------------- pydantic models (validation) --------------------- *)
HasTyped(raw, key, types) == key \in DOMAIN raw.v /\ raw.v[key].k \in types

OptionalTyped(raw, key, types) ==
  key \notin DOMAIN raw.v \/ raw.v[key].k \in (types \cup {"None"})

(* class GraphNode: id: str, type: str, position: dict, data: dict         *)
ValidGraphNode(raw) ==
  /\ raw.k = "dict"
  /\ HasTyped(raw, "id", {"str"})
  /\ HasTyped(raw, "type", {"str"})
  /\ HasTyped(raw, "position", {"dict"})
  /\ HasTyped(raw, "data", {"dict"})

GraphNode(raw) ==
  [id |-> raw.v.id, type |-> raw.v.type,
   position |-> raw.v.position, data |-> raw.v.data]

(* class GraphEdge: id, source, target: str; type, animated, style with    *)
(* defaults "smoothstep", False, None                                      *)
Smoothstep == <<"s","m","o","o","t","h","s","t","e","p">>

ValidGraphEdge(raw) ==
  /\ raw.k = "dict"
  /\ HasTyped(raw, "id", {"str"})
  /\ HasTyped(raw, "source", {"str"})
  /\ HasTyped(raw, "target", {"str"})
  /\ OptionalTyped(raw, "type", {"str"})
  /\ OptionalTyped(raw, "animated", {"bool"})
  /\ OptionalTyped(raw, "style", {"dict"})

GraphEdge(raw) ==
  [id |-> raw.v.id, source |-> raw.v.source, target |-> raw.v.target,
   type |-> DictGet(raw, "type", PStr(Smoothstep)),
   animated |-> DictGet(raw, "animated", PBool(FALSE)),
   style |-> DictGet(raw, "style", PNone)]

(* class Viewport: x, y, zoom: float; an int is accepted and becomes a     *)
(* float                                                                   *)
ToFloat(p) == IF p.k = "int" THEN PFloat(10 * p.v) ELSE p

ValidViewport(raw) ==
  /\ raw.k = "dict"
  /\ HasTyped(raw, "x", {"int", "float"})
  /\ HasTyped(raw, "y", {"int", "float"})
  /\ HasTyped(raw, "zoom", {"int", "float"})

Viewport(raw) ==
  [x |-> ToFloat(raw.v.x), y |-> ToFloat(raw.v.y), zoom |-> ToFloat(raw.v.zoom)]

(* class GraphState: nodes: List[GraphNode], edges: List[GraphEdge],       *)
(* viewport: Optional[Viewport] = None                                     *)
ValidGraphState(body) ==
  /\ body.k = "dict"
  /\ HasTyped(body, "nodes", {"list"})
  /\ \A i \in DOMAIN body.v.nodes.v : ValidGraphNode(body.v.nodes.v[i])
  /\ HasTyped(body, "edges", {"list"})
  /\ \A i \in DOMAIN body.v.edges.v : ValidGraphEdge(body.v.edges.v[i])
  /\ \/ "viewport" \notin DOMAIN body.v
     \/ body.v.viewport.k = "None"
     \/ ValidViewport(body.v.viewport)

GraphState(body) ==
  [nodes |-> [i \in DOMAIN body.v.nodes.v |-> GraphNode(body.v.nodes.v[i])],
   edges |-> [i \in DOMAIN body.v.edges.v |-> GraphEdge(body.v.edges.v[i])],
   viewport |-> IF "viewport" \in DOMAIN body.v /\ body.v.viewport.k # "None"
                THEN Viewport(body.v.viewport) ELSE PNone]

(* a dump that leaves the viewport out                                     *)
ModelDump_DropViewport(state) ==
  PDict([nodes |-> PList([i \in DOMAIN state.nodes |-> PDict(state.nodes[i])]),
         edges |-> PList([i \in DOMAIN state.edges |-> PDict(state.edges[i])]),
         viewport |-> PNone])

(* state.model_dump(): the model and its sub-models as plain dicts         *)
ModelDump(state) ==
  PDict([nodes |-> PList([i \in DOMAIN state.nodes |-> PDict(state.nodes[i])]),
         edges |-> PList([i \in DOMAIN state.edges |-> PDict(state.edges[i])]),
         viewport |-> IF state.viewport = PNone THEN PNone
                      ELSE PDict(state.viewport)])

(* ------------------------- GRAPH_FILE --------------------------------- *)
NoFile == [f |-> "absent"]
PartialFile == [f |-> "partial"]
FileWith(doc) == [f |-> "doc", doc |-> doc]

Exists(f) == f.f # "absent"

(* a write that does not truncate: what is left of a different old         *)
(* document follows the new one and the file no longer parses              *)
WriteFile_NoTruncate(old, doc) ==
  IF old.f = "doc" /\ old.doc # doc THEN PartialFile ELSE FileWith(doc)

(* open(GRAPH_FILE, "w") + json.dump: the old content is discarded         *)
WriteFile(old, doc) == FileWith(doc)

ErrorDetail(code) == [detail |-> code]

(* the two counts exchanged                                                *)
SaveResponse_Swapped(state) ==
  [status |-> "success", message |-> "Graph saved successfully",
   nodeCount |-> Len(state.edges), edgeCount |-> Len(state.nodes)]

SaveResponse(state) ==
  [status |-> "success", message |-> "Graph saved successfully",
   nodeCount |-> Len(state.nodes), edgeCount |-> Len(state.edges)]

(* a handler that opens the file for writing before the body is validated *)
save_graph_OpenBeforeValidate(f, body, diskOk) ==
  IF ~ValidGraphState(body)
  THEN [file |-> PartialFile, status |-> 422, resp |-> ErrorDetail("validation"),
        state |-> PNone]
  ELSE LET state == GraphState(body)
       IN IF diskOk
          THEN [file |-> FileWith(JsonDump(ModelDump(state))), status |-> 200,
                resp |-> SaveResponse(state), state |-> state]
          ELSE [file |-> PartialFile, status |-> 500,
                resp |-> ErrorDetail("write"), state |-> PNone]

(* POST /save.  The framework validates the body against GraphState and    *)
(* answers 422 without calling the handler when validation fails.  diskOk  *)
(* is the environment: when the medium fills up, open(...,"w") has already *)
(* truncated the file and the handler answers 500.                         *)
save_graph(f, body, diskOk) ==
  IF ~ValidGraphState(body)
  THEN [file |-> f, status |-> 422, resp |-> ErrorDetail("validation"), state |-> PNone]
  ELSE LET state == GraphState(body)
           graph_data == ModelDump(state)
       IN IF diskOk
          THEN [file |-> WriteFile(f, JsonDump(graph_data)), status |-> 200,
                resp |-> SaveResponse(state), state |-> state]
          ELSE [file |-> PartialFile, status |-> 500,
                resp |-> ErrorDetail("write"), state |-> PNone]

(* a default viewport with zoom 0                                          *)
DefaultState_ZeroZoom ==
  PDict([nodes |-> PList(<<>>), edges |-> PList(<<>>),
         viewport |-> PDict([x |-> PInt(0), y |-> PInt(0), zoom |-> PInt(0)])])

DefaultState ==
  PDict([nodes |-> PList(<<>>), edges |-> PList(<<>>),
         viewport |-> PDict([x |-> PInt(0), y |-> PInt(0), zoom |-> PInt(1)])])

(* GET /load                                                               *)
load_graph(f) ==
  IF Exists(f)
  THEN IF f.f = "doc"
       THEN [file |-> f, status |-> 200, resp |-> JsonLoad(f.doc), state |-> PNone]
       ELSE [file |-> f, status |-> 500, resp |-> ErrorDetail("read"), state |-> PNone]
  ELSE [file |-> f, status |-> 200, resp |-> DefaultState, state |-> PNone]

(* an unlink without the exists() test fails when there is no file        *)
clear_graph_NoExistsCheck(f) ==
  IF Exists(f)
  THEN [file |-> NoFile, status |-> 200,
        resp |-> [status |-> "success", message |-> "Graph cleared"], state |-> PNone]
  ELSE [file |-> f, status |-> 500, resp |-> ErrorDetail("unlink"), state |-> PNone]

(* DELETE /clear                                                           *)
clear_graph(f) ==
  [file |-> IF Exists(f) THEN NoFile ELSE f, status |-> 200,
   resp |-> [status |-> "success", message |-> "Graph cleared"], state |-> PNone]

(* ---------------------- POST /export/mermaid -------------------------- *)
NL == "\n"
GraphLR == <<"g","r","a","p","h"," ","L","R">>
Indent == <<" "," "," "," ">>
Arrow == <<" ","-","-",">"," ">>
StyleKw == <<"s","t","y","l","e"," ">>
FillKw == <<" ","f","i","l","l",":">>

(* str.replace(old, new) for one-character old and new                     *)
Replace(s, old, new) == [i \in DOMAIN s |-> IF s[i] = old THEN new ELSE s[i]]

(* only the dashes replaced                                                *)
Sanitize_DashOnly(s) == Replace(s, "-", "_")

(* .replace("-", "_").replace(" ", "_"), as applied to node.id,            *)
(* edge.source and edge.target                                             *)
Sanitize(s) == Replace(Replace(s, "-", "_"), " ", "_")

(* a str.format template with one {} field, as <<text before, text after>> *)
Cylinder == << <<"[","(">>, <<")","]">> >>
Hexagon == << <<"{","{">>, <<"}","}">> >>
Rhombus == << <<"{">>, <<"}">> >>
Rounded == << <<"(">>, <<")">> >>

(* Router and Filter given the hexagon template                            *)
shape_map_RhombusAsHexagon ==
  [t \in {<<"P","o","s","t","g","r","e","S","Q","L">>, <<"M","y","S","Q","L">>,
          <<"M","o","n","g","o","D","B">>, <<"R","e","d","i","s">>,
          <<"S","n","o","w","f","l","a","k","e">>} |-> Cylinder]
  @@ [t \in {<<"L","L","M">>, <<"V","e","c","t","o","r","D","B">>,
             <<"M","o","d","e","l","T","r","a","i","n","i","n","g">>,
             <<"R","o","u","t","e","r">>, <<"F","i","l","t","e","r">>} |-> Hexagon]

shape_map ==
  [t \in {<<"P","o","s","t","g","r","e","S","Q","L">>, <<"M","y","S","Q","L">>,
          <<"M","o","n","g","o","D","B">>, <<"R","e","d","i","s">>,
          <<"S","n","o","w","f","l","a","k","e">>} |-> Cylinder]
  @@ [t \in {<<"L","L","M">>, <<"V","e","c","t","o","r","D","B">>,
             <<"M","o","d","e","l","T","r","a","i","n","i","n","g">>} |-> Hexagon]
  @@ [t \in {<<"R","o","u","t","e","r">>, <<"F","i","l","t","e","r">>} |-> Rhombus]

(* shape_map.get(node_type, "({})")                                        *)
ShapeGet(node_type) ==
  IF node_type.k = "str" /\ node_type.v \in DOMAIN shape_map
  THEN shape_map[node_type.v] ELSE Rounded

(* str(value), as an f-string or str.format renders it                     *)
PyStr(p) ==
  CASE p.k = "str" -> p.v
    [] p.k = "None" -> <<"N","o","n","e">>

(* truth value of a Python object                                          *)
Truthy(p) ==
  CASE p.k = "None" -> FALSE
    [] p.k = "bool" -> p.v
    [] p.k \in {"int", "float"} -> p.v # 0
    [] p.k = "str" -> Len(p.v) > 0
    [] p.k = "list" -> Len(p.v) > 0
    [] p.k = "dict" -> DOMAIN p.v # {}

(* node.data.get("label", node.data.get("nodeType", "Node"))               *)
NodeLabel(node) ==
  DictGet(node.data, "label",
          DictGet(node.data, "nodeType", PStr(<<"N","o","d","e">>)))

NodeLine(node) ==
  LET node_id == Sanitize(node.id.v)
      label == NodeLabel(node)
      node_type == DictGet(node.data, "nodeType", PStr(<<"d","e","f","a","u","l","t">>))
      shape == ShapeGet(node_type)
  IN Indent \o node_id \o shape[1] \o PyStr(label) \o shape[2]

EdgeLine(edge) ==
  LET source == Sanitize(edge.source.v)
      target == Sanitize(edge.target.v)
  IN Indent \o source \o Arrow \o target

(* the loop over state.nodes that appends a style line for a truthy color  *)
RECURSIVE StyleLines(_)
StyleLines(nodes) ==
  IF nodes = <<>> THEN <<>>
  ELSE LET node == Head(nodes)
           color == DictGet(node.data, "color", PNone)
       IN (IF Truthy(color)
           THEN << Indent \o StyleKw \o Sanitize(node.id.v) \o FillKw \o PyStr(color) >>
           ELSE <<>>) \o StyleLines(Tail(nodes))

(* the style section emitted before the edge section                      *)
MermaidLines_StylesFirst(state) ==
  <<GraphLR>>
  \o [i \in DOMAIN state.nodes |-> NodeLine(state.nodes[i])]
  \o << <<>> >>
  \o StyleLines(state.nodes)
  \o << <<>> >>
  \o [i \in DOMAIN state.edges |-> EdgeLine(state.edges[i])]

MermaidLines(state) ==
  <<GraphLR>>
  \o [i \in DOMAIN state.nodes |-> NodeLine(state.nodes[i])]
  \o << <<>> >>
  \o [i \in DOMAIN state.edges |-> EdgeLine(state.edges[i])]
  \o << <<>> >>
  \o StyleLines(state.nodes)

(* "\n".join(lines)                                                        *)
RECURSIVE Join(_)
Join(lines) ==
  IF lines = <<>> THEN <<>>
  ELSE IF Len(lines) = 1 THEN lines[1]
  ELSE lines[1] \o <<NL>> \o Join(Tail(lines))

(* the fixed text of the notebook wrapper, before and after mermaid_code;  *)
(* each line of the template is one element                                *)
PythonHead ==
  <<"# Generated by ArchFlow", NL,
    "from IPython.display import display, Markdown", NL, NL,
    "mermaid_code = (triple quote)", NL>>
PythonTail ==
  <<NL, "(triple quote)", NL, NL,
    "display(Markdown(mermaid fence around mermaid_code))">>

export_mermaid(body) ==
  IF ~ValidGraphState(body)
  THEN [status |-> 422, resp |-> ErrorDetail("validation"), state |-> PNone]
  ELSE LET state == GraphState(body)
           mermaid_code == Join(MermaidLines(state))
           python_code == PythonHead \o mermaid_code \o PythonTail
       IN [status |-> 200, resp |-> [mermaid |-> mermaid_code, python |-> python_code],
           state |-> state]

(* ------------------------ request bodies ------------------------------ *)
SeqsUpTo(S, n) == UNION {[1..m -> S] : m \in 0..n}

IdN1 == <<"n","1">>
IdABC == <<"a"," ","b","-","c">>
KindCustom == <<"c","u","s","t","o","m">>

RawNodeA ==
  PDict([id |-> PStr(IdN1), type |-> PStr(KindCustom),
         position |-> PDict([x |-> PInt(10), y |-> PFloat(25)]),
         data |-> PDict([label |-> PStr(<<"D","B">>),
                         nodeType |-> PStr(<<"R","e","d","i","s">>),
                         color |-> PStr(<<"#","3","3","6">>)])])

(* a node as the editor sends it, with a key GraphNode does not declare    *)
RawNodeB ==
  PDict([id |-> PStr(IdABC), type |-> PStr(KindCustom),
         position |-> PDict([x |-> PInt(0), y |-> PInt(0)]),
         data |-> PDict([nodeType |-> PStr(<<"L","L","M">>), opacity |-> PInt(90)]),
         selected |-> PBool(TRUE)])

RawEdgeMin ==
  PDict([id |-> PStr(<<"e","1">>), source |-> PStr(IdN1), target |-> PStr(IdABC)])

RawEdgeFull ==
  PDict([id |-> PStr(<<"e","2">>), source |-> PStr(IdABC), target |-> PStr(IdN1),
         type |-> PStr(<<"s","t","e","p">>), animated |-> PBool(TRUE),
         style |-> PDict([stroke |-> PStr(<<"#","0","0","0">>)]),
         label |-> PNone])

RawViewportInt == PDict([x |-> PInt(0), y |-> PInt(0), zoom |-> PInt(1)])
RawViewportFloat == PDict([x |-> PFloat(15), y |-> PInt(-2), zoom |-> PFloat(5)])

Body(nodes, edges, vp) == PDict([nodes |-> PList(nodes), edges |-> PList(edges)] @@ vp)

(* bodies without a viewport, and bodies with each kind of viewport        *)
WellFormedBodies ==
  {Body(ns, es, EmptyMap) : ns \in SeqsUpTo({RawNodeA, RawNodeB}, MaxNodes),
                            es \in SeqsUpTo({RawEdgeMin, RawEdgeFull}, MaxEdges)}
  \cup {Body(<<RawNodeA, RawNodeB>>, <<RawEdgeMin>>, [viewport |-> RawViewportFloat]),
        Body(<<>>, <<>>, [viewport |-> RawViewportInt]),
        Body(<<RawNodeB>>, <<>>, [viewport |-> PNone])}

(* bodies that lack a required field or carry a value of the wrong type    *)
MalformedBodies ==
  {Body(<<PDict(Without(RawNodeA.v, key))>>, <<>>, EmptyMap) :
       key \in {"id", "type", "position", "data"}}
  \cup {Body(<<RawNodeA, PDict(Without(RawNodeB.v, "id"))>>, <<RawEdgeMin>>,
             [viewport |-> RawViewportInt])}
  \cup {Body(<<RawNodeA>>, <<PDict(Without(RawEdgeFull.v, key))>>, EmptyMap) :
       key \in {"id", "source", "target"}}
  \cup {PDict([nodes |-> PList(<<RawNodeA>>)]), PDict([edges |-> PList(<<>>)])}
  \cup {Body(<<PDict([RawNodeA.v EXCEPT !.id = PInt(7)])>>, <<>>, EmptyMap),
        Body(<<>>, <<>>, [viewport |-> PDict(Without(RawViewportInt.v, "zoom"))])}

SaveBodies == WellFormedBodies \cup MalformedBodies

(* a node or an edge of the body lacks one of its required fields          *)
LacksRequiredField(body) ==
  \/ /\ "nodes" \in DOMAIN body.v
     /\ \E i \in DOMAIN body.v.nodes.v :
           {"id", "type", "position", "data"} \ DOMAIN body.v.nodes.v[i].v # {}
  \/ /\ "edges" \in DOMAIN body.v
     /\ \E i \in DOMAIN body.v.edges.v :
           {"id", "source", "target"} \ DOMAIN body.v.edges.v[i].v # {}

(* ------------------- history of the last request ---------------------- *)
NoRequest ==
  [op |-> "none", status |-> 0, resp |-> PNone, state |-> PNone, lacks |-> FALSE,
   prev |-> [op |-> "none", status |-> 0]]

(* what a load remembers of the request before it                          *)
Before(l) == [op |-> l.op, status |-> l.status, state |-> l.state,
              resp |-> IF l.op = "save" THEN l.resp ELSE PNone]

BeforeBrief(l) == [op |-> l.op, status |-> l.status]

(* ---------------------- sequential store ------------------------------ *)
PersistedFiles ==
  {NoFile} \cup {save_graph(NoFile, b, TRUE).file :
                    b \in {x \in WellFormedBodies : ValidGraphState(x)}}

Init ==
  /\ file \in PersistedFiles
  /\ last = NoRequest
  /\ lastChange = IF file = NoFile THEN "none" ELSE "save"
  /\ reqs = <<>>
  /\ lastWriter = 0

Save(body, diskOk) ==
  LET r == save_graph(file, body, diskOk) IN
  /\ file' = r.file
  /\ last' = [op |-> "save", status |-> r.status, resp |-> r.resp, state |-> r.state,
              lacks |-> LacksRequiredField(body), prev |-> NoRequest.prev]
  /\ lastChange' = IF r.status = 422 THEN lastChange ELSE "save"
  /\ UNCHANGED <<reqs, lastWriter>>

Load ==
  LET r == load_graph(file) IN
  /\ file' = r.file
  /\ last' = [op |-> "load", status |-> r.status, resp |-> r.resp, state |-> PNone,
              lacks |-> FALSE, prev |-> Before(last)]
  /\ UNCHANGED <<lastChange, reqs, lastWriter>>

Clear ==
  LET r == clear_graph(file) IN
  /\ file' = r.file
  /\ last' = [op |-> "clear", status |-> r.status, resp |-> r.resp, state |-> PNone,
              lacks |-> FALSE, prev |-> BeforeBrief(last)]
  /\ lastChange' = IF r.status = 200 THEN "clear" ELSE lastChange
  /\ UNCHANGED <<reqs, lastWriter>>

Next ==
  \/ \E body \in SaveBodies, diskOk \in BOOLEAN : Save(body, diskOk)
  \/ Load
  \/ Clear

Spec == Init /\ [][Next]_vars

TypeOK ==
  /\ file.f \in {"absent", "partial", "doc"}
  /\ last.op \in {"none", "save", "load", "clear", "export"}
  /\ last.status \in {0, 200, 422, 500}
  /\ lastChange \in {"none", "save", "clear"}

(* ------------------------- export requests ---------------------------- *)
IdN2 == <<"n","-","2">>
IdDangling == <<"x","-","y"," ","z">>
ColorBlue == <<"#","3","3","6">>

ExportNode(id, data) ==
  PDict([id |-> PStr(id), type |-> PStr(KindCustom),
         position |-> PDict(EmptyMap), data |-> PDict(data)])

TypeNames ==
  DOMAIN shape_map
  \cup {<<"d","e","f","a","u","l","t">>, <<"l","l","m">>}

(* every nodeType of the table, two that are not in it, and none           *)
TypeOptions == {EmptyMap} \cup {[nodeType |-> PStr(t)] : t \in TypeNames}

ExportNodes ==
  {ExportNode(IdN1, [label |-> PStr(<<"D","B">>)] @@ ty) : ty \in TypeOptions}
  \cup {ExportNode(IdABC, [color |-> PStr(ColorBlue)]),
        ExportNode(IdABC, [nodeType |-> PStr(<<"L","L","M">>), color |-> PStr(ColorBlue)]),
        ExportNode(IdABC, [label |-> PStr(<<>>), nodeType |-> PStr(<<"L","L","M">>),
                           color |-> PStr(ColorBlue)]),
        ExportNode(IdN2, [label |-> PStr(<<"X">>),
                          nodeType |-> PStr(<<"R","e","d","i","s">>),
                          color |-> PStr(<<>>)])}

ExportEdges ==
  {PDict([id |-> PStr(<<"e">>), source |-> PStr(e[1]), target |-> PStr(e[2])]) :
      e \in {<<IdN1, IdABC>>, <<IdABC, IdN1>>, <<IdN2, IdDangling>>}}

ExportBodies ==
  {Body(ns, es, EmptyMap) : ns \in SeqsUpTo(ExportNodes, MaxExportNodes),
                            es \in SeqsUpTo(ExportEdges, MaxExportEdges)}
  \cup {Body(<<PDict(Without(RawNodeA.v, "data"))>>, <<>>, EmptyMap)}

(* a request a client has sent, and the answer once it is handled         *)
Request(op, body) ==
  [op |-> op, body |-> body, pc |-> "pending", status |-> 0, resp |-> PNone]

Answered(rq, status, resp) == [rq EXCEPT !.pc = "done", !.status = status, !.resp = resp]

InitExport ==
  /\ file = NoFile
  /\ last = NoRequest
  /\ lastChange = "none"
  /\ reqs \in {<<Request("export", body)>> : body \in ExportBodies}
  /\ lastWriter = 0

Export ==
  /\ reqs[1].pc = "pending"
  /\ LET r == export_mermaid(reqs[1].body) IN
     /\ last' = [op |-> "export", status |-> r.status, resp |-> r.resp, state |-> r.state,
                 lacks |-> LacksRequiredField(reqs[1].body), prev |-> NoRequest.prev]
     /\ reqs' = <<Answered(reqs[1], r.status, r.resp)>>
  /\ UNCHANGED <<file, lastChange, lastWriter>>

NextExport == Export

SpecExport == InitExport /\ [][NextExport]_vars

(* ----------------------- concurrent requests ------------------------- *)
(* The handlers are coroutines (async def) without an await in their body, *)
(* run by the one event loop of uvicorn.run(app): a handler runs from      *)
(* validation to its return without another handler in between, and the    *)
(* loop picks the pending requests in any order.                           *)
RaceBodies ==
  {Body(<<RawNodeA>>, <<>>, EmptyMap),
   Body(<<RawNodeB, RawNodeA>>, <<RawEdgeMin>>, [viewport |-> RawViewportInt]),
   Body(<<RawNodeB>>, <<RawEdgeFull, RawEdgeMin>>, [viewport |-> RawViewportFloat])}

RaceRequests ==
  {Request("save", body) : body \in RaceBodies} \cup {Request("load", PNone)}

InitRace ==
  /\ file = NoFile
  /\ last = NoRequest
  /\ lastChange = "none"
  /\ reqs \in [1..MaxReqs -> RaceRequests]
  /\ lastWriter = 0

HandleSave(i, diskOk) ==
  /\ reqs[i].pc = "pending" /\ reqs[i].op = "save"
  /\ LET r == save_graph(file, reqs[i].body, diskOk) IN
     /\ file' = r.file
     /\ reqs' = [reqs EXCEPT ![i] = Answered(reqs[i], r.status, r.resp)]
     /\ lastWriter' = IF r.status = 422 THEN lastWriter ELSE i
  /\ UNCHANGED <<last, lastChange>>

HandleLoad(i) ==
  /\ reqs[i].pc = "pending" /\ reqs[i].op = "load"
  /\ LET r == load_graph(file) IN
     /\ file' = r.file
     /\ reqs' = [reqs EXCEPT ![i] = Answered(reqs[i], r.status, r.resp)]
  /\ UNCHANGED <<last, lastChange, lastWriter>>

NextRace ==
  \E i \in 1..MaxReqs :
     \/ \E diskOk \in BOOLEAN : HandleSave(i, diskOk)
     \/ HandleLoad(i)

SpecRace == InitRace /\ [][NextRace]_vars

(* ---------------------------------------------------------------------- *)
(* Claims about the store                                                  *)
(* ---------------------------------------------------------------------- *)

(* the dict a load returned holds the nodes, edges and viewport of the     *)
(* GraphState s, and nothing else                                          *)
SameContent(py, s) ==
  /\ py.k = "dict"
  /\ DOMAIN py.v = {"nodes", "edges", "viewport"}
  /\ py.v.nodes.k = "list" /\ Len(py.v.nodes.v) = Len(s.nodes)
  /\ \A i \in 1..Len(s.nodes) :
        /\ py.v.nodes.v[i].k = "dict"
        /\ py.v.nodes.v[i].v = s.nodes[i]
  /\ py.v.edges.k = "list" /\ Len(py.v.edges.v) = Len(s.edges)
  /\ \A i \in 1..Len(s.edges) :
        /\ py.v.edges.v[i].k = "dict"
        /\ py.v.edges.v[i].v = s.edges[i]
  /\ IF s.viewport = PNone THEN py.v.viewport = PNone
     ELSE py.v.viewport.k = "dict" /\ py.v.viewport.v = s.viewport

LoadAfterSave ==
  last.op = "load" /\ last.prev.op = "save" /\ last.prev.status = 200

(* C1: a load that immediately follows a successful save(s) succeeds and   *)
(* returns the nodes, edges and viewport of s, whatever the file held      *)
(* before the save.                                                        *)
C1_RoundTrip ==
  LoadAfterSave => last.status = 200 /\ SameContent(last.resp, last.prev.state)

C1_Witness ==
  /\ LoadAfterSave
  /\ Len(last.prev.state.nodes) = 2
  /\ Len(last.prev.state.edges) = 1
  /\ last.prev.state.viewport # PNone
  /\ last.status = 200

(* C2: a load on a store that was never saved, or whose last change was a  *)
(* clear, succeeds with {nodes: [], edges: [], viewport: {x:0,y:0,zoom:1}}.*)
C2_DefaultOnEmpty ==
  (last.op = "load" /\ lastChange \in {"none", "clear"}) =>
     /\ last.status = 200
     /\ last.resp = PDict([nodes |-> PList(<<>>), edges |-> PList(<<>>),
                           viewport |-> PDict([x |-> PInt(0), y |-> PInt(0),
                                               zoom |-> PInt(1)])])

C2_Witness ==
  last.op = "load" /\ lastChange = "clear" /\ last.prev.op = "clear"

(* C3: a save whose body lacks a required field of a node or an edge (or   *)
(* is rejected by validation for any other reason) is answered 422, and    *)
(* the file, hence the result of a following load, is what it was before.  *)
C3_RejectedSaveKeepsState ==
  [][(last'.op = "save" /\ (last'.lacks \/ last'.status = 422)) =>
        /\ last'.status = 422
        /\ file' = file
        /\ load_graph(file').status = load_graph(file).status
        /\ load_graph(file').resp = load_graph(file).resp]_vars

C3_Witness ==
  last.op = "save" /\ last.lacks /\ last.status = 422 /\ file.f = "doc"

(* C4: a clear always succeeds and leaves no file, also when there was     *)
(* none; a clear that follows a clear changes nothing and answers the same.*)
C4_ClearIdempotent ==
  [][last'.op = "clear" =>
        /\ last'.status = 200
        /\ file' = NoFile
        /\ last.op = "clear" =>
              (file' = file /\ last'.resp = last.resp /\ last'.status = last.status)]_vars

C4_Witness ==
  last.op = "clear" /\ last.prev.op = "clear" /\ last.status = 200 /\ file = NoFile

(* C9: the nodeCount and edgeCount of a successful save are the lengths of *)
(* nodes and edges of the document written, and of what a following load   *)
(* returns.                                                                *)
C9_SaveCounts ==
  /\ (last.op = "save" /\ last.status = 200) =>
        /\ file.f = "doc"
        /\ last.resp.nodeCount = Len(file.doc.v.nodes.v)
        /\ last.resp.edgeCount = Len(file.doc.v.edges.v)
  /\ LoadAfterSave =>
        /\ last.prev.resp.nodeCount = Len(last.resp.v.nodes.v)
        /\ last.prev.resp.edgeCount = Len(last.resp.v.edges.v)

C9_Witness ==
  /\ LoadAfterSave
  /\ last.prev.resp.nodeCount = 2
  /\ last.prev.resp.edgeCount = 1

(* ---------------------------------------------------------------------- *)
(* Claims about the export                                                 *)
(* ---------------------------------------------------------------------- *)
RECURSIVE SplitLines(_)
SplitLines(text) ==
  IF \A i \in DOMAIN text : text[i] # NL THEN <<text>>
  ELSE LET i == CHOOSE i \in DOMAIN text :
                   text[i] = NL /\ \A j \in 1..(i - 1) : text[j] # NL
       IN <<SubSeq(text, 1, i - 1)>> \o SplitLines(SubSeq(text, i + 1, Len(text)))

Exported == last.op = "export" /\ last.status = 200

OutLines == SplitLines(last.resp.mermaid)

(* the leading part of s that holds no character of stop                   *)
RECURSIVE TakeUntil(_, _)
TakeUntil(s, stop) ==
  IF s = <<>> \/ Head(s) \in stop THEN <<>>
  ELSE <<Head(s)>> \o TakeUntil(Tail(s), stop)

Drop(s, n) == SubSeq(s, n + 1, Len(s))

StartsWith(s, prefix) ==
  Len(s) >= Len(prefix) /\ SubSeq(s, 1, Len(prefix)) = prefix

Brackets == {"(", ")", "[", "]", "{", "}"}

(* the identifier the spec gives a raw id: - and space become _            *)
SpecIdentifier(raw) ==
  [i \in 1..Len(raw) |-> IF raw[i] \in {"-", " "} THEN "_" ELSE raw[i]]

DataHas(node, key) == key \in DOMAIN node.data.v

HasColor(node) == DataHas(node, "color") /\ node.data.v.color.v # <<>>

Colored(nodes) == SelectSeq(nodes, HasColor)

(* the text of a declaration line after the indent and the identifier      *)
Wrapped(line, node) == Drop(line, Len(Indent) + Len(node.id.v))

(* the label the spec selects for a node                                   *)
SpecLabel(node) ==
  IF DataHas(node, "label") /\ node.data.v.label.v # <<>> THEN node.data.v.label.v
  ELSE IF DataHas(node, "nodeType") THEN node.data.v.nodeType.v
  ELSE <<"N","o","d","e">>

(* the brackets the spec's table gives a nodeType                          *)
SpecShape(node) ==
  LET t == IF DataHas(node, "nodeType") THEN node.data.v.nodeType.v ELSE <<>> IN
  IF t \in {<<"P","o","s","t","g","r","e","S","Q","L">>, <<"M","y","S","Q","L">>,
            <<"M","o","n","g","o","D","B">>, <<"R","e","d","i","s">>,
            <<"S","n","o","w","f","l","a","k","e">>}
  THEN << <<"[","(">>, <<")","]">> >>
  ELSE IF t \in {<<"L","L","M">>, <<"V","e","c","t","o","r","D","B">>,
                 <<"M","o","d","e","l","T","r","a","i","n","i","n","g">>}
  THEN << <<"{","{">>, <<"}","}">> >>
  ELSE IF t \in {<<"R","o","u","t","e","r">>, <<"F","i","l","t","e","r">>}
  THEN << <<"{">>, <<"}">> >>
  ELSE << <<"(">>, <<")">> >>

(* C5: in every declaration line the label is data.label if present and    *)
(* non-empty, else data.nodeType if present, else "Node".                  *)
C5_LabelSelection ==
  Exported =>
    \A i \in 1..Len(last.state.nodes) :
       LET node == last.state.nodes[i]
           w == Wrapped(OutLines[1 + i], node)
           sh == SpecShape(node)
       IN SubSeq(w, Len(sh[1]) + 1, Len(w) - Len(sh[2])) = SpecLabel(node)

DeclIdentifier(line) == TakeUntil(Drop(line, Len(Indent)), Brackets)
EdgeSource(line) == TakeUntil(Drop(line, Len(Indent)), {" "})
EdgeTarget(line) == Drop(line, Len(Indent) + Len(EdgeSource(line)) + Len(Arrow))
StyleIdentifier(line) == TakeUntil(Drop(line, Len(Indent) + Len(StyleKw)), {" "})

(* C7: every identifier of the output is the raw id with - and space       *)
(* replaced by _, and a node's identifier is the same in its declaration   *)
(* line, in the edge lines that refer to it and in its style line.         *)
C7_Sanitization ==
  Exported =>
    LET nodes == last.state.nodes
        edges == last.state.edges
        n == Len(nodes)
        m == Len(edges)
        out == OutLines
        styled == {i \in 1..n : HasColor(nodes[i])}
        StyleLineOf(i) == out[n + m + 3 + Cardinality({k \in styled : k <= i})]
    IN /\ \A i \in 1..n :
             /\ DeclIdentifier(out[1 + i]) = SpecIdentifier(nodes[i].id.v)
             /\ \A c \in DOMAIN DeclIdentifier(out[1 + i]) :
                   DeclIdentifier(out[1 + i])[c] \notin {"-", " "}
             /\ \A j \in 1..m :
                   /\ edges[j].source = nodes[i].id =>
                         EdgeSource(out[n + 2 + j]) = DeclIdentifier(out[1 + i])
                   /\ edges[j].target = nodes[i].id =>
                         EdgeTarget(out[n + 2 + j]) = DeclIdentifier(out[1 + i])
             /\ i \in styled => StyleIdentifier(StyleLineOf(i)) = DeclIdentifier(out[1 + i])
       /\ \A j \in 1..m :
             /\ EdgeSource(out[n + 2 + j]) = SpecIdentifier(edges[j].source.v)
             /\ EdgeTarget(out[n + 2 + j]) = SpecIdentifier(edges[j].target.v)

C7_Witness ==
  /\ Exported
  /\ Len(last.state.nodes) = 2 /\ Len(last.state.edges) = 1
  /\ last.state.nodes[2].id.v = <<"a"," ","b","-","c">>
  /\ HasColor(last.state.nodes[2])
  /\ last.state.edges[1].target = last.state.nodes[2].id
  /\ DeclIdentifier(OutLines[3]) = <<"a","_","b","_","c">>
  /\ EdgeTarget(OutLines[5]) = <<"a","_","b","_","c">>
  /\ StyleIdentifier(OutLines[7]) = <<"a","_","b","_","c">>

(* C8: the label of a declaration line is wrapped in the brackets the      *)
(* table gives the node's nodeType by exact match: [( )] for PostgreSQL,   *)
(* MySQL, MongoDB, Redis, Snowflake; {{ }} for LLM, VectorDB,              *)
(* ModelTraining; { } for Router, Filter; ( ) for any other or no nodeType.*)
C8_ShapeMapping ==
  Exported =>
    \A i \in 1..Len(last.state.nodes) :
       LET node == last.state.nodes[i]
           w == Wrapped(OutLines[1 + i], node)
           sh == SpecShape(node)
           inner == SubSeq(w, Len(sh[1]) + 1, Len(w) - Len(sh[2]))
       IN /\ Len(w) >= Len(sh[1]) + Len(sh[2])
          /\ StartsWith(w, sh[1])
          /\ Drop(w, Len(w) - Len(sh[2])) = sh[2]
          /\ \A c \in DOMAIN inner : inner[c] \notin Brackets

C8_Witness ==
  /\ Exported
  /\ Len(last.state.nodes) = 2
  /\ DataHas(last.state.nodes[1], "nodeType")
  /\ last.state.nodes[1].data.v.nodeType.v = <<"F","i","l","t","e","r">>
  /\ ~DataHas(last.state.nodes[2], "nodeType")
  /\ Wrapped(OutLines[2], last.state.nodes[1]) = <<"{","D","B","}">>
  /\ Wrapped(OutLines[3], last.state.nodes[2])[1] = "("

(* ---------------------------------------------------------------------- *)
(* Claims about concurrent requests                                        *)
(* ---------------------------------------------------------------------- *)
SavedBy(i) == reqs[i].op = "save" /\ reqs[i].pc = "done" /\ reqs[i].status = 200

(* C10: whatever the order in which concurrent saves and loads are         *)
(* handled, the file holds the whole state of the save that wrote last and *)
(* nothing of another one, and a load that succeeds returns the empty      *)
(* state or the whole state of one save.                                   *)
C10_LastWriteWins ==
  /\ lastWriter = 0 => file = NoFile
  /\ lastWriter # 0 =>
        /\ reqs[lastWriter].op = "save" /\ reqs[lastWriter].pc = "done"
        /\ IF reqs[lastWriter].status = 200
           THEN /\ file.f = "doc"
                /\ SameContent(JsonLoad(file.doc), GraphState(reqs[lastWriter].body))
           ELSE file = PartialFile
  /\ \A i \in DOMAIN reqs :
        (reqs[i].op = "load" /\ reqs[i].pc = "done" /\ reqs[i].status = 200) =>
           \/ reqs[i].resp = PDict([nodes |-> PList(<<>>), edges |-> PList(<<>>),
                                    viewport |-> PDict([x |-> PInt(0), y |-> PInt(0),
                                                        zoom |-> PInt(1)])])
           \/ \E j \in DOMAIN reqs :
                 SavedBy(j) /\ SameContent(reqs[i].resp, GraphState(reqs[j].body))

C10_Witness ==
  /\ \A i \in DOMAIN reqs : reqs[i].pc = "done"
  /\ lastWriter # 0 /\ SavedBy(lastWriter)
  /\ \E j \in DOMAIN reqs :
        /\ j # lastWriter /\ SavedBy(j) /\ reqs[j].body # reqs[lastWriter].body
        /\ \E i \in DOMAIN reqs :
              /\ reqs[i].op = "load" /\ reqs[i].status = 200
              /\ SameContent(reqs[i].resp, GraphState(reqs[j].body))

====
